---- MODULE Spec2Model ----
(***************************************************************************)
(* Model of the data-table helpers of cuba-react (src/ui/table):           *)
(* setFilters, setSorter, setPagination, handleTableChange and             *)
(* entityFilterToTableFilters.  The helpers translate the filters, sorter  *)
(* and pagination of an antd Table into the filter, sort, limit and offset *)
(* of a DataCollectionStore.                                               *)
(*                                                                         *)
(* JavaScript values are tagged records: [t |-> "undefined"],              *)
(* [t |-> "null"], [t |-> "string", s |-> ...], [t |-> "number", n |-> ...]*)
(* [t |-> "array", items |-> <<...>>] and objects with their members.      *)
(***************************************************************************)
EXTENDS Integers, Sequences, FiniteSets, TLC

VARIABLES dataCollection, last

vars == <<dataCollection, last>>

(***************************************************************************)
(* Bounds of the model.                                                    *)
(***************************************************************************)
MaxFields == 2
MaxPage == 3
MaxConditions == 3

(***************************************************************************)
(* JavaScript values.                                                      *)
(***************************************************************************)
Undefined == [t |-> "undefined"]

Null == [t |-> "null"]

Str(s) == [t |-> "string", s |-> s]

Num(n) == [t |-> "number", n |-> n]

Arr(items) == [t |-> "array", items |-> items]

\* ToBoolean of a value, as used by `if (x)` and `a && b`.
Truthy(v) ==
  CASE v.t = "undefined" -> FALSE
    [] v.t = "null" -> FALSE
    [] v.t = "string" -> v.s # ""
    [] v.t = "number" -> v.n # 0
    [] OTHER -> TRUE

(***************************************************************************)
(* String built-ins used by setSorter, on TLA+ strings.                    *)
(***************************************************************************)
endsWith(s, suffix) ==
  /\ Len(s) >= Len(suffix)
  /\ SubSeq(s, Len(s) - Len(suffix) + 1, Len(s)) = suffix

\* Zero-based index of the first occurrence of the one-character string c, or -1.
indexOf(s, c) ==
  IF \E i \in 1..Len(s) : SubSeq(s, i, i) = c
    THEN (CHOOSE i \in 1..Len(s) :
            /\ SubSeq(s, i, i) = c
            /\ \A j \in 1..(i - 1) : SubSeq(s, j, j) # c) - 1
    ELSE -1

\* s.substring(start, end) for 0 <= start <= end <= s.length.
substring(s, start, end) == SubSeq(s, start + 1, end)

\* An object with its own members, a function from member names to values.
Obj(own) == [t |-> "object", own |-> own]

NoMembers == [k \in {} |-> Undefined]

\* tableFilters.hasOwnProperty(k), and `k in o` for an own member.
hasOwnProperty(o, k) == o.t = "object" /\ k \in DOMAIN o.own

\* o[k] or o.k on an object: a missing member reads as undefined.
Get(o, k) == IF hasOwnProperty(o, k) THEN o.own[k] ELSE Undefined

\* setSorter without its else branch: no order leaves the sort as it was.
MutSetSorterKeepsSort(sorter, defaultSort, dc) ==
  IF Truthy(sorter) /\ Truthy(Get(sorter, "order"))
    THEN LET field == Get(sorter, "field").s
             sortOrderPrefix == IF Get(sorter, "order") = Str("descend") THEN "-" ELSE "+"
             sortField ==
               IF endsWith(field, "._instanceName")
                 THEN substring(field, 0, indexOf(field, "."))
                 ELSE field
         IN [dc EXCEPT !.sort = Str(sortOrderPrefix \o sortField)]
    ELSE dc

(***************************************************************************)
(* setSorter(sorter, defaultSort, dataCollection): the collection after    *)
(* the call.                                                               *)
(***************************************************************************)
setSorter(sorter, defaultSort, dc) ==
  IF Truthy(sorter) /\ Truthy(Get(sorter, "order"))
    THEN LET field == Get(sorter, "field").s
             sortOrderPrefix == IF Get(sorter, "order") = Str("descend") THEN "-" ELSE "+"
             sortField ==
               IF endsWith(field, "._instanceName")
                 THEN substring(field, 0, indexOf(field, "."))
                 ELSE field
         IN [dc EXCEPT !.sort = Str(sortOrderPrefix \o sortField)]
    ELSE [dc EXCEPT !.sort = Str(defaultSort)]

\* setPagination testing pageSize alone.
MutSetPaginationNoCurrentTest(pagination, dc) ==
  IF Truthy(pagination) /\ Truthy(Get(pagination, "pageSize"))
    THEN LET pageSize == Get(pagination, "pageSize").n
             current == IF Get(pagination, "current").t = "number"
                          THEN Get(pagination, "current").n
                          ELSE 1
         IN [dc EXCEPT !.limit = Num(pageSize),
                       !.offset = Num(pageSize * (current - 1))]
    ELSE dc

(***************************************************************************)
(* setPagination(pagination, dataCollection): the collection after the     *)
(* call.                                                                   *)
(***************************************************************************)
setPagination(pagination, dc) ==
  IF Truthy(pagination) /\ Truthy(Get(pagination, "pageSize"))
       /\ Truthy(Get(pagination, "current"))
    THEN LET pageSize == Get(pagination, "pageSize").n
             current == Get(pagination, "current").n
         IN [dc EXCEPT !.limit = Num(pageSize),
                       !.offset = Num(pageSize * (current - 1))]
    ELSE dc

(***************************************************************************)
(* Entity metadata held by the main store: the attribute type of each      *)
(* property of the entity shown in the table.                              *)
(***************************************************************************)
EntityName == "scr$Car"

PropertyNames == {"status", "name", "updateTs"}

MainStore ==
  [metadata |->
     [e \in {EntityName} |->
        [p \in PropertyNames |->
           [name |-> p,
            attributeType |-> IF p = "status" THEN "ENUM" ELSE "DATATYPE"]]]]

getPropertyInfoNN(propertyName, entityName, metadata) ==
  metadata[entityName][propertyName]

(***************************************************************************)
(* JSON texts of custom filters, and JSON.parse on them.  A text that is   *)
(* not JSON makes JSON.parse throw a SyntaxError.                          *)
(***************************************************************************)
TxtEq == "{\"operator\":\"=\",\"value\":\"x\"}"

TxtNotEmpty == "{\"operator\":\"notEmpty\"}"

TxtInterval ==
  "{\"operator\":\"inInterval\",\"value\":{\"minDate\":\"2020-01-01\",\"maxDate\":\"2020-12-31\"}}"

TxtIntervalNull == "{\"operator\":\"inInterval\",\"value\":null}"

JSONparse(text) ==
  CASE text = TxtEq ->
         [threw |-> FALSE,
          value |-> Obj([operator |-> Str("="), value |-> Str("x")])]
    [] text = TxtNotEmpty ->
         [threw |-> FALSE, value |-> Obj([operator |-> Str("notEmpty")])]
    [] text = TxtInterval ->
         [threw |-> FALSE,
          value |-> Obj([operator |-> Str("inInterval"),
                         value |-> Obj([minDate |-> Str("2020-01-01"),
                                        maxDate |-> Str("2020-12-31")])])]
    [] text = TxtIntervalNull ->
         [threw |-> FALSE,
          value |-> Obj([operator |-> Str("inInterval"), value |-> Null])]
    [] OTHER -> [threw |-> TRUE]

\* `const {a, b} = v` throws a TypeError when v is undefined or null.
CanDestructure(v) == v.t \notin {"undefined", "null"}

(***************************************************************************)
(* setFilters(tableFilters, fields, mainStore, dataCollection).            *)
(* setFiltersEach is the forEach over fields from index i on, entityFilter *)
(* being the filter built so far; it ends with the filter built or with an *)
(* exception thrown.                                                       *)
(***************************************************************************)
push(entityFilter, condition) ==
  [entityFilter EXCEPT !.conditions = Append(@, condition)]

RECURSIVE pushAll(_, _)
pushAll(entityFilter, conditions) ==
  IF conditions = <<>>
    THEN entityFilter
    ELSE pushAll(push(entityFilter, Head(conditions)), Tail(conditions))

\* conditionsOf without the inInterval branch, and conditionsOf taking the
\* first selected value of an ENUM property only.
MutConditionsOfNoInterval(propertyName, selected, attributeType) ==
  IF attributeType = "ENUM"
    THEN [threw |-> FALSE,
          conditions |-> <<[property |-> propertyName,
                            operator |-> Str("in"),
                            value |-> selected]>>]
    ELSE
      LET parsed == JSONparse(selected.items[1]) IN
      IF parsed.threw \/ ~CanDestructure(parsed.value)
        THEN [threw |-> TRUE]
        ELSE [threw |-> FALSE,
              conditions |-> <<[property |-> propertyName,
                                operator |-> Get(parsed.value, "operator"),
                                value |-> Get(parsed.value, "value")]>>]

MutConditionsOfEnumFirstValue(propertyName, selected, attributeType) ==
  IF attributeType = "ENUM"
    THEN [threw |-> FALSE,
          conditions |-> <<[property |-> propertyName,
                            operator |-> Str("in"),
                            value |-> Arr(<<selected.items[1]>>)]>>]
    ELSE MutConditionsOfNoInterval(propertyName, selected, attributeType)

\* The body of the forEach for a property with an active table filter:
\* the conditions it pushes, in order, unless it throws.
conditionsOf(propertyName, selected, attributeType) ==
  IF attributeType = "ENUM"
    THEN [threw |-> FALSE,
          conditions |-> <<[property |-> propertyName,
                            operator |-> Str("in"),
                            value |-> selected]>>]
    ELSE
      LET parsed == JSONparse(selected.items[1]) IN
      IF parsed.threw \/ ~CanDestructure(parsed.value)
        THEN [threw |-> TRUE]
        ELSE
          LET operator == Get(parsed.value, "operator")
              value == Get(parsed.value, "value")
          IN
          IF operator = Str("inInterval")
            THEN
              IF ~CanDestructure(value)
                THEN [threw |-> TRUE]
                ELSE [threw |-> FALSE,
                      conditions |-> <<[property |-> propertyName,
                                        operator |-> Str(">="),
                                        value |-> Get(value, "minDate")],
                                       [property |-> propertyName,
                                        operator |-> Str("<="),
                                        value |-> Get(value, "maxDate")]>>]
            ELSE [threw |-> FALSE,
                  conditions |-> <<[property |-> propertyName,
                                    operator |-> operator,
                                    value |-> value]>>]

\* The condition of line 203: the property has an active table filter.
isActive(tableFilters, propertyName) ==
  /\ hasOwnProperty(tableFilters, propertyName)
  /\ Truthy(Get(tableFilters, propertyName))
  /\ Len(Get(tableFilters, propertyName).items) > 0

RECURSIVE setFiltersEach(_, _, _, _, _, _)
setFiltersEach(tableFilters, fields, i, entityFilter, mainStore, dc) ==
  IF i > Len(fields)
    THEN [threw |-> FALSE, entityFilter |-> entityFilter]
    ELSE
      LET propertyName == fields[i] IN
      IF isActive(tableFilters, propertyName)
        THEN
          LET created == IF entityFilter = Undefined
                           THEN [conditions |-> <<>>]
                           ELSE entityFilter
              pushed == conditionsOf(
                          propertyName,
                          Get(tableFilters, propertyName),
                          getPropertyInfoNN(propertyName, dc.entityName,
                                            mainStore.metadata).attributeType)
          IN
          IF pushed.threw
            THEN [threw |-> TRUE]
            ELSE setFiltersEach(tableFilters, fields, i + 1,
                                pushAll(created, pushed.conditions), mainStore, dc)
        ELSE setFiltersEach(tableFilters, fields, i + 1, entityFilter, mainStore, dc)

\* setFilters starting from the collection's filter instead of undefined.
MutSetFiltersKeepsFilter(tableFilters, fields, mainStore, dc) ==
  LET each == IF Truthy(tableFilters)
                THEN setFiltersEach(tableFilters, fields, 1, dc.filter, mainStore, dc)
                ELSE [threw |-> FALSE, entityFilter |-> dc.filter]
  IN IF each.threw
       THEN [threw |-> TRUE, dc |-> dc]
       ELSE [threw |-> FALSE, dc |-> [dc EXCEPT !.filter = each.entityFilter]]

\* The outcome of the call: whether it threw, and the collection after it.
setFilters(tableFilters, fields, mainStore, dc) ==
  LET each == IF Truthy(tableFilters)
                THEN setFiltersEach(tableFilters, fields, 1, Undefined, mainStore, dc)
                ELSE [threw |-> FALSE, entityFilter |-> Undefined]
  IN IF each.threw
       THEN [threw |-> TRUE, dc |-> dc]
       ELSE [threw |-> FALSE, dc |-> [dc EXCEPT !.filter = each.entityFilter]]

(***************************************************************************)
(* dataCollection.load(): the request parameters the load reads from the   *)
(* collection.                                                             *)
(***************************************************************************)
load(dc) ==
  [filter |-> dc.filter, sort |-> dc.sort, limit |-> dc.limit, offset |-> dc.offset]

\* handleTableChange loading before it sets the pagination.
MutHandleTableChangeLoadsEarly(tableChangeDTO) ==
  LET dc == tableChangeDTO.dataCollection
      filtered == setFilters(tableChangeDTO.filters, tableChangeDTO.fields,
                             tableChangeDTO.mainStore, dc)
  IN
  IF filtered.threw
    THEN [threw |-> TRUE, dc |-> filtered.dc, loads |-> <<>>]
    ELSE
      LET sorted == setSorter(tableChangeDTO.sorter, tableChangeDTO.defaultSort,
                              filtered.dc)
      IN [threw |-> FALSE,
          dc |-> setPagination(tableChangeDTO.pagination, sorted),
          loads |-> <<load(sorted)>>]

(***************************************************************************)
(* handleTableChange(tableChangeDTO): whether it threw, the collection     *)
(* after the call and, in order, what each load() of the call read.        *)
(***************************************************************************)
handleTableChange(tableChangeDTO) ==
  LET dc == tableChangeDTO.dataCollection
      filtered == setFilters(tableChangeDTO.filters, tableChangeDTO.fields,
                             tableChangeDTO.mainStore, dc)
  IN
  IF filtered.threw
    THEN [threw |-> TRUE, dc |-> filtered.dc, loads |-> <<>>]
    ELSE
      LET sorted == setSorter(tableChangeDTO.sorter, tableChangeDTO.defaultSort,
                              filtered.dc)
          paged == setPagination(tableChangeDTO.pagination, sorted)
      IN [threw |-> FALSE, dc |-> paged, loads |-> <<load(paged)>>]

(***************************************************************************)
(* JSON.stringify({operator, value}): a member whose value is undefined is *)
(* left out.                                                               *)
(***************************************************************************)
Quote(s) == "\"" \o s \o "\""

RECURSIVE JoinQuoted(_)
JoinQuoted(items) ==
  IF items = <<>> THEN ""
  ELSE IF Len(items) = 1 THEN Quote(items[1])
  ELSE Quote(items[1]) \o "," \o JoinQuoted(Tail(items))

JSONstringifyValue(v) ==
  CASE v.t = "string" -> Quote(v.s)
    [] v.t = "null" -> "null"
    [] v.t = "array" -> "[" \o JoinQuoted(v.items) \o "]"

JSONstringify(operator, value) ==
  "{\"operator\":" \o JSONstringifyValue(operator)
    \o (IF value = Undefined THEN "" ELSE ",\"value\":" \o JSONstringifyValue(value))
    \o "}"

(***************************************************************************)
(* entityFilterToTableFilters(entityFilter).  entityFilterEach is the      *)
(* forEach over the conditions from index i on, tableFilters being the     *)
(* members assigned so far.                                                *)
(***************************************************************************)
RECURSIVE entityFilterEach(_, _, _)
entityFilterEach(conditions, i, tableFilters) ==
  IF i > Len(conditions)
    THEN [threw |-> FALSE, value |-> Obj(tableFilters)]
    ELSE
      LET condition == conditions[i] IN
      IF "conditions" \in DOMAIN condition
        THEN [threw |-> TRUE]
        ELSE entityFilterEach(conditions, i + 1,
               [k \in DOMAIN tableFilters \cup {condition.property} |->
                  IF k = condition.property
                    THEN Arr(<<JSONstringify(condition.operator, condition.value)>>)
                    ELSE tableFilters[k]])

\* entityFilterToTableFilters starting at the second condition.
MutEntityFilterSkipsFirst(entityFilter) ==
  entityFilterEach(entityFilter.conditions, 2, NoMembers)

entityFilterToTableFilters(entityFilter) ==
  entityFilterEach(entityFilter.conditions, 1, NoMembers)

(***************************************************************************)
(* Inputs.                                                                 *)
(***************************************************************************)
\* Sequences over S of length at most n.
RECURSIVE SeqsUpTo(_, _)
SeqsUpTo(S, n) ==
  IF n = 0 THEN {<<>>}
  ELSE LET shorter == SeqsUpTo(S, n - 1)
       IN shorter \cup {Append(q, x) : q \in {r \in shorter : Len(r) = n - 1}, x \in S}

\* The collection as its owner created it: nothing set, or sort and page preset.
InitCollections ==
  {[entityName |-> EntityName, filter |-> Undefined, sort |-> Undefined,
    limit |-> Undefined, offset |-> Undefined],
   [entityName |-> EntityName, filter |-> Undefined, sort |-> Str("-updateTs"),
    limit |-> Num(10), offset |-> Num(0)]}

SorterFields ==
  {"name", "owner.name", "owner._instanceName", "owner.manager._instanceName"}

Sorters ==
  {Undefined, Obj(NoMembers)}
    \cup {Obj([order |-> o, field |-> Str(f)]) :
            o \in {Undefined, Str("ascend"), Str("descend")}, f \in SorterFields}

DefaultSorts == {"-updateTs", "+name", "name"}

PageSizes == {0, 10, 20, 50}

Paginations ==
  {Undefined, Obj(NoMembers), Obj([pageSize |-> Num(10)])}
    \cup {Obj([pageSize |-> Num(s), current |-> Num(c)]) :
            s \in PageSizes, c \in 0..MaxPage}

\* What a table-filter member can hold: absent ("none"), null, or a list of texts.
Absent == [t |-> "absent"]

StatusFilters == {Absent, Arr(<<"RED", "GREEN">>)}

NameFilters == {Absent, Arr(<<TxtEq>>)}

UpdateTsFilters == {Absent, Arr(<<TxtInterval>>)}

TableFiltersOf(status, name, updateTs) ==
  LET given == [status |-> status, name |-> name, updateTs |-> updateTs]
  IN Obj([k \in {p \in PropertyNames : given[p] # Absent} |-> given[k]])

\* No table filters, every combination of the column filters with values, a
\* cleared (null) and an empty column filter beside one with values, a custom
\* filter without a value, and column filters that setFilters cannot decode:
\* a text that is not JSON, and an interval without its dates.
TableFilters ==
  {Undefined, Null}
    \cup {TableFiltersOf(s, n, u) :
            s \in StatusFilters, n \in NameFilters, u \in UpdateTsFilters}
    \cup {TableFiltersOf(Null, Arr(<<TxtEq>>), Absent),
          TableFiltersOf(Arr(<<>>), Absent, Arr(<<TxtInterval>>)),
          TableFiltersOf(Absent, Arr(<<TxtNotEmpty>>), Absent),
          TableFiltersOf(Absent, Arr(<<"RED">>), Absent),
          TableFiltersOf(Absent, Absent, Arr(<<TxtIntervalNull>>))}

FieldLists == SeqsUpTo(PropertyNames, MaxFields)

\* Conditions and condition groups of an EntityFilter.
ConditionElements ==
  {[property |-> "name", operator |-> Str("="), value |-> Str("x")],
   [property |-> "name", operator |-> Str("notEmpty"), value |-> Undefined],
   [property |-> "status", operator |-> Str("in"), value |-> Arr(<<"RED", "GREEN">>)],
   [group |-> "AND", conditions |-> <<>>],
   [group |-> "OR",
    conditions |-> <<[property |-> "name", operator |-> Str("="), value |-> Str("x")]>>]}

EntityFilters == {[conditions |-> c] : c \in SeqsUpTo(ConditionElements, MaxConditions)}

\* The table changes of a table with columns status, name and updateTs.
TableChangeFilters ==
  {Undefined,
   TableFiltersOf(Arr(<<"RED", "GREEN">>), Absent, Arr(<<TxtInterval>>)),
   TableFiltersOf(Absent, Arr(<<"RED">>), Absent)}

TableChangeFields == {<<"status", "name">>, <<"updateTs", "status">>}

TableChangeSorters ==
  {Obj(NoMembers),
   Obj([order |-> Str("ascend"), field |-> Str("name")]),
   Obj([order |-> Str("descend"), field |-> Str("owner._instanceName")])}

TableChangePaginations ==
  {Undefined, Obj([pageSize |-> Num(0), current |-> Num(1)])}
    \cup {Obj([pageSize |-> Num(10), current |-> Num(c)]) : c \in 0..MaxPage}

(***************************************************************************)
(* The state: the data collection, and the last call made with its         *)
(* arguments and outcome.                                                  *)
(***************************************************************************)
Init ==
  /\ dataCollection \in InitCollections
  /\ last = [op |-> "none"]

SetSorterCall ==
  \E sorter \in Sorters, defaultSort \in DefaultSorts :
    /\ dataCollection' = setSorter(sorter, defaultSort, dataCollection)
    /\ last' = [op |-> "setSorter", sorter |-> sorter, defaultSort |-> defaultSort,
                before |-> dataCollection]

SetPaginationCall ==
  \E pagination \in Paginations :
    /\ dataCollection' = setPagination(pagination, dataCollection)
    /\ last' = [op |-> "setPagination", pagination |-> pagination,
                before |-> dataCollection]

\* last keeps the filter the collection held before a call that threw, and of
\* a call that returned whether the collection held a filter before it.
SetFiltersCall ==
  \E tableFilters \in TableFilters, fields \in FieldLists :
    \E outcome \in {setFilters(tableFilters, fields, MainStore, dataCollection)} :
      /\ dataCollection' = outcome.dc
      /\ last' = IF outcome.threw
                   THEN [op |-> "setFilters", threw |-> TRUE,
                         tableFilters |-> tableFilters, fields |-> fields,
                         before |-> dataCollection.filter]
                   ELSE [op |-> "setFilters", threw |-> FALSE,
                         tableFilters |-> tableFilters, fields |-> fields,
                         hadFilter |-> dataCollection.filter # Undefined]

HandleTableChangeCall ==
  \E pagination \in TableChangePaginations, filters \in TableChangeFilters,
     sorter \in TableChangeSorters, fields \in TableChangeFields :
    \E tableChangeDTO \in
         {[pagination |-> pagination, filters |-> filters, sorter |-> sorter,
           defaultSort |-> "-updateTs", fields |-> fields, mainStore |-> MainStore,
           dataCollection |-> dataCollection]} :
      \E outcome \in {handleTableChange(tableChangeDTO)} :
        /\ dataCollection' = outcome.dc
        /\ last' = [op |-> "handleTableChange", dto |-> tableChangeDTO,
                    threw |-> outcome.threw, loads |-> outcome.loads]

EntityFilterToTableFiltersCall ==
  \E entityFilter \in EntityFilters :
    /\ last' = [op |-> "entityFilterToTableFilters", entityFilter |-> entityFilter,
                result |-> entityFilterToTableFilters(entityFilter)]
    /\ UNCHANGED dataCollection

\* The table's onChange callback.
Next == HandleTableChangeCall

Spec == Init /\ [][Next]_vars

\* Each exported helper called on its own.
SpecSetSorter == Init /\ [][SetSorterCall]_vars

SpecSetPagination == Init /\ [][SetPaginationCall]_vars

SpecSetFilters == Init /\ [][SetFiltersCall]_vars

SpecEntityFilter == Init /\ [][EntityFilterToTableFiltersCall]_vars

(***************************************************************************)
(* What the claims speak of, stated on the arguments of the last call.     *)
(***************************************************************************)
\* The sorter is present and has an order.
HasOrder(sorter) ==
  /\ sorter.t = "object"
  /\ "order" \in DOMAIN sorter.own
  /\ sorter.own["order"].t = "string"
  /\ sorter.own["order"].s # ""

\* The text without a trailing '._instanceName'.
WithoutInstanceName(text) ==
  IF endsWith(text, "._instanceName")
    THEN SubSeq(text, 1, Len(text) - Len("._instanceName"))
    ELSE text

\* The pagination is present and its pageSize and current are non-zero numbers.
HasPage(pagination) ==
  /\ pagination.t = "object"
  /\ {"pageSize", "current"} \subseteq DOMAIN pagination.own
  /\ pagination.own["pageSize"].t = "number" /\ pagination.own["pageSize"].n # 0
  /\ pagination.own["current"].t = "number" /\ pagination.own["current"].n # 0

\* The table filters are present and hold a non-empty value list for the property.
HasValues(tableFilters, p) ==
  /\ tableFilters.t = "object"
  /\ p \in DOMAIN tableFilters.own
  /\ tableFilters.own[p].t = "array"
  /\ tableFilters.own[p].items # <<>>

IsEnum(p) == MainStore.metadata[EntityName][p].attributeType = "ENUM"

\* What the first table-filter value of a non-ENUM property decodes to.
Decoded(tableFilters, p) == JSONparse(tableFilters.own[p].items[1]).value

IsInterval(tableFilters, p) ==
  /\ HasValues(tableFilters, p)
  /\ ~IsEnum(p)
  /\ Get(Decoded(tableFilters, p), "operator") = Str("inInterval")

\* The number of conditions an entry of fields contributes: none without
\* values, two for an interval, one otherwise.
Contribution(tableFilters, p) ==
  IF ~HasValues(tableFilters, p) THEN 0
  ELSE IF IsInterval(tableFilters, p) THEN 2
  ELSE 1

\* The number of conditions contributed by the entries of fields before entry i.
RECURSIVE ConditionsBefore(_, _, _)
ConditionsBefore(tableFilters, fields, i) ==
  IF i <= 1 THEN 0
  ELSE ConditionsBefore(tableFilters, fields, i - 1)
         + Contribution(tableFilters, fields[i - 1])

ConditionsInAll(tableFilters, fields) ==
  ConditionsBefore(tableFilters, fields, Len(fields) + 1)

SetFiltersReturned == last.op = "setFilters" /\ ~last.threw

\* The conditions of the collection's filter, none when it is undefined.
FilterConditions ==
  IF dataCollection.filter = Undefined THEN <<>> ELSE dataCollection.filter.conditions

(***************************************************************************)
(* C1  setSorter with a sorter that has an order sets the sort to '-' (for *)
(* 'descend') or '+' (otherwise) followed by the sorter's field without a  *)
(* trailing '._instanceName': a descend sorter on X._instanceName gives    *)
(* '-X'.  The code cuts the field at its first '.', so the statement fails *)
(* for a field such as 'owner.manager._instanceName'.                      *)
(***************************************************************************)
C1_SortIsPrefixAndFieldWithoutInstanceName ==
  (last.op = "setSorter" /\ HasOrder(last.sorter)) =>
    dataCollection.sort =
      Str((IF last.sorter.own["order"].s = "descend" THEN "-" ELSE "+")
            \o WithoutInstanceName(last.sorter.own["field"].s))

(***************************************************************************)
(* C2  setSorter with no sorter, or with a sorter without an order, sets   *)
(* the sort to defaultSort, whatever the sort was before the call.         *)
(***************************************************************************)
C2_NoOrderGivesDefaultSort ==
  (last.op = "setSorter" /\ ~HasOrder(last.sorter)) =>
    dataCollection.sort = Str(last.defaultSort)

C2_Witness ==
  /\ last.op = "setSorter"
  /\ last.sorter.t = "object"
  /\ ~HasOrder(last.sorter)
  /\ last.before.sort \notin {Undefined, Str(last.defaultSort)}
  /\ dataCollection.sort = Str(last.defaultSort)

(***************************************************************************)
(* C3  entityFilterToTableFilters throws, and returns no table filters,    *)
(* exactly when some element of the conditions, at any position, is a      *)
(* condition group.                                                        *)
(***************************************************************************)
C3_ThrowsExactlyOnGroups ==
  last.op = "entityFilterToTableFilters" =>
    LET conditions == last.entityFilter.conditions
        hasGroup == \E i \in 1..Len(conditions) : "conditions" \in DOMAIN conditions[i]
    IN /\ last.result.threw <=> hasGroup
       /\ ("value" \in DOMAIN last.result) <=> ~hasGroup

C3_Witness ==
  /\ last.op = "entityFilterToTableFilters"
  /\ Len(last.entityFilter.conditions) = 3
  /\ "conditions" \notin DOMAIN last.entityFilter.conditions[1]
  /\ "conditions" \notin DOMAIN last.entityFilter.conditions[2]
  /\ "conditions" \in DOMAIN last.entityFilter.conditions[3]
  /\ last.result.threw

(***************************************************************************)
(* C4  As claimed: each call of handleTableChange loads exactly once, and  *)
(* the load sees the values of the current table change and never those of *)
(* an earlier one: what it reads is what the same table change gives on    *)
(* the collection as it was created, whatever earlier changes left in it.  *)
(* (Stated for the calls that return; a violation among those is a         *)
(* violation of the claim for all calls.)                                  *)
(***************************************************************************)
C4_LoadSeesOnlyThisCall ==
  (last.op = "handleTableChange" /\ ~last.threw) =>
    /\ Len(last.loads) = 1
    /\ \E created \in InitCollections :
         last.loads =
           handleTableChange([last.dto EXCEPT !.dataCollection = created]).loads

(***************************************************************************)
(* C4, amended  Each call of handleTableChange that returns loads exactly  *)
(* once, after all three setters: the load reads the filter that           *)
(* setFilters and the sort that setSorter assigned from this call's        *)
(* arguments, and the limit and offset of this call's pagination when the  *)
(* pagination has a non-zero pageSize and current, and otherwise the limit *)
(* and offset the collection held before the call.  A call in which        *)
(* setFilters throws does not load.                                        *)
(***************************************************************************)
C4_LoadAfterSetters ==
  last.op = "handleTableChange" =>
    LET dto == last.dto
        before == dto.dataCollection
    IN
    IF last.threw
      THEN last.loads = <<>>
      ELSE
        /\ Len(last.loads) = 1
        /\ last.loads[1] = load(dataCollection)
        /\ last.loads[1].filter =
             setFilters(dto.filters, dto.fields, dto.mainStore, before).dc.filter
        /\ last.loads[1].sort = setSorter(dto.sorter, dto.defaultSort, before).sort
        /\ IF HasPage(dto.pagination)
             THEN /\ last.loads[1].limit = dto.pagination.own["pageSize"]
                  /\ last.loads[1].offset =
                       Num(dto.pagination.own["pageSize"].n
                             * (dto.pagination.own["current"].n - 1))
             ELSE /\ last.loads[1].limit = before.limit
                  /\ last.loads[1].offset = before.offset

\* A table change without pagination after one that set page 3 and a filter:
\* the load reads no filter, the default sort, and the limit and offset of
\* the earlier change.
C4_Witness ==
  /\ last.op = "handleTableChange"
  /\ ~last.threw
  /\ last.dto.pagination = Undefined
  /\ last.dto.dataCollection.filter # Undefined
  /\ last.dto.dataCollection.offset = Num(20)
  /\ Len(last.loads) = 1
  /\ last.loads[1].filter = Undefined
  /\ last.loads[1].offset = Num(20)
  /\ last.loads[1].limit = Num(10)

\* The first table-filter value of a non-ENUM property cannot be decoded:
\* it is not JSON, it is JSON null, or it is an interval without its dates.
Undecodable(tableFilters, p) ==
  LET parsed == JSONparse(tableFilters.own[p].items[1]) IN
  \/ parsed.threw
  \/ parsed.value.t \in {"undefined", "null"}
  \/ /\ Get(parsed.value, "operator") = Str("inInterval")
     /\ Get(parsed.value, "value").t \in {"undefined", "null"}

\* Some entry of fields is a non-ENUM property whose values cannot be decoded.
HasUndecodable(tableFilters, fields) ==
  \E i \in 1..Len(fields) :
    /\ HasValues(tableFilters, fields[i])
    /\ ~IsEnum(fields[i])
    /\ Undecodable(tableFilters, fields[i])

\* The conditions an entry of fields with decodable values stands for.
ConditionsFor(tableFilters, p) ==
  IF ~HasValues(tableFilters, p) THEN <<>>
  ELSE IF IsEnum(p)
    THEN <<[property |-> p, operator |-> Str("in"), value |-> tableFilters.own[p]]>>
  ELSE IF IsInterval(tableFilters, p)
    THEN <<[property |-> p, operator |-> Str(">="),
            value |-> Get(Get(Decoded(tableFilters, p), "value"), "minDate")],
           [property |-> p, operator |-> Str("<="),
            value |-> Get(Get(Decoded(tableFilters, p), "value"), "maxDate")]>>
  ELSE <<[property |-> p, operator |-> Get(Decoded(tableFilters, p), "operator"),
          value |-> Get(Decoded(tableFilters, p), "value")]>>

(***************************************************************************)
(* C5  As claimed: after any sequence of setFilters calls the filter       *)
(* depends on the arguments of the last call only, and no condition of an  *)
(* earlier call remains: the filter is the one the same call gives on the  *)
(* collection as it was created, whatever earlier calls left in it.        *)
(***************************************************************************)
C5_FilterDependsOnLastCallOnly ==
  last.op = "setFilters" =>
    \E created \in InitCollections :
      dataCollection.filter =
        setFilters(last.tableFilters, last.fields, MainStore, created).dc.filter

(***************************************************************************)
(* C5, amended  A setFilters call throws exactly when some name in fields  *)
(* is a non-ENUM property with a non-empty value list whose first value    *)
(* cannot be decoded, and a call that throws leaves the filter as it was,  *)
(* conditions of earlier calls included.  After a call that returns the    *)
(* filter depends on that call's arguments only: it is undefined when      *)
(* tableFilters is absent or no name in fields has a non-empty value list, *)
(* and otherwise its conditions are exactly those this call's fields and   *)
(* tableFilters stand for, in the order of fields; nothing of an earlier   *)
(* call remains.                                                           *)
(***************************************************************************)
C5_FilterOfLastReturnedCall ==
  last.op = "setFilters" =>
    /\ last.threw <=> HasUndecodable(last.tableFilters, last.fields)
    /\ IF last.threw
         THEN dataCollection.filter = last.before
         ELSE
           LET n == ConditionsInAll(last.tableFilters, last.fields) IN
           IF n = 0
             THEN dataCollection.filter = Undefined
             ELSE /\ dataCollection.filter # Undefined
                  /\ Len(FilterConditions) = n
                  /\ \A i \in 1..Len(last.fields) :
                       LET at == ConditionsBefore(last.tableFilters, last.fields, i)
                           expected == ConditionsFor(last.tableFilters, last.fields[i])
                       IN SubSeq(FilterConditions, at + 1, at + Len(expected)) = expected

\* The collection holds an 'in' condition on status from an earlier call, and
\* a call for name alone, whose value is not JSON, threw and left it there.
C5_Witness ==
  /\ last.op = "setFilters"
  /\ last.threw
  /\ last.fields = <<"name">>
  /\ DOMAIN last.tableFilters.own = {"name"}
  /\ last.before # Undefined
  /\ dataCollection.filter = last.before
  /\ Len(FilterConditions) = 1
  /\ FilterConditions[1].property = "status"

(***************************************************************************)
(* C6  setPagination sets limit = pageSize and offset = pageSize *         *)
(* (current - 1) when the pagination is present with non-zero pageSize and *)
(* current, and otherwise leaves limit and offset (and the rest of the     *)
(* collection) as they were.                                               *)
(***************************************************************************)
C6_PaginationSetOrUnchanged ==
  last.op = "setPagination" =>
    IF HasPage(last.pagination)
      THEN /\ dataCollection.limit = last.pagination.own["pageSize"]
           /\ dataCollection.offset =
                Num(last.pagination.own["pageSize"].n
                      * (last.pagination.own["current"].n - 1))
           /\ dataCollection.filter = last.before.filter
           /\ dataCollection.sort = last.before.sort
      ELSE dataCollection = last.before

\* A pagination with a page size but current = 0 on a collection that is on
\* another page size.
C6_Witness ==
  /\ last.op = "setPagination"
  /\ last.pagination.t = "object"
  /\ Get(last.pagination, "pageSize") = Num(20)
  /\ Get(last.pagination, "current") = Num(0)
  /\ last.before.limit = Num(10)
  /\ last.before.offset = Num(10)
  /\ dataCollection.limit = Num(10)
  /\ dataCollection.offset = Num(10)

(***************************************************************************)
(* C7  In setFilters each entry of fields for a non-ENUM property with     *)
(* values contributes, at its place, two conditions '>=' minDate and '<='  *)
(* maxDate when its first value decodes to 'inInterval', and otherwise one *)
(* condition with the decoded operator and value; no condition of the      *)
(* filter has the operator 'inInterval'.                                   *)
(***************************************************************************)
C7_IntervalSplitInTwo ==
  SetFiltersReturned =>
    /\ Len(FilterConditions) = ConditionsInAll(last.tableFilters, last.fields)
    /\ \A k \in 1..Len(FilterConditions) :
         FilterConditions[k].operator # Str("inInterval")
    /\ \A i \in 1..Len(last.fields) :
         LET p == last.fields[i]
             at == ConditionsBefore(last.tableFilters, last.fields, i)
             decoded == Decoded(last.tableFilters, p)
         IN
         (HasValues(last.tableFilters, p) /\ ~IsEnum(p)) =>
           IF IsInterval(last.tableFilters, p)
             THEN /\ FilterConditions[at + 1] =
                       [property |-> p, operator |-> Str(">="),
                        value |-> Get(Get(decoded, "value"), "minDate")]
                  /\ FilterConditions[at + 2] =
                       [property |-> p, operator |-> Str("<="),
                        value |-> Get(Get(decoded, "value"), "maxDate")]
             ELSE FilterConditions[at + 1] =
                    [property |-> p, operator |-> Get(decoded, "operator"),
                     value |-> Get(decoded, "value")]

\* An interval on updateTs followed by an equality on name.
C7_Witness ==
  /\ SetFiltersReturned
  /\ last.fields = <<"updateTs", "name">>
  /\ IsInterval(last.tableFilters, "updateTs")
  /\ HasValues(last.tableFilters, "name")
  /\ Len(FilterConditions) = 3
  /\ FilterConditions[1].operator = Str(">=")
  /\ FilterConditions[1].value = Str("2020-01-01")
  /\ FilterConditions[2].operator = Str("<=")
  /\ FilterConditions[3].operator = Str("=")

(***************************************************************************)
(* C8  In setFilters each entry of fields for an ENUM property with values *)
(* contributes, at its place, one condition 'in' whose value is the whole  *)
(* list of selected values; the conditions follow the order of fields, and *)
(* a table-filter key that is not in fields contributes no condition.      *)
(***************************************************************************)
C8_EnumInConditionInFieldOrder ==
  SetFiltersReturned =>
    /\ \A i \in 1..Len(last.fields) :
         LET p == last.fields[i]
             at == ConditionsBefore(last.tableFilters, last.fields, i)
         IN
         /\ (HasValues(last.tableFilters, p) /\ IsEnum(p)) =>
              /\ ConditionsBefore(last.tableFilters, last.fields, i + 1) = at + 1
              /\ FilterConditions[at + 1] =
                   [property |-> p, operator |-> Str("in"),
                    value |-> last.tableFilters.own[p]]
         /\ \A k \in 1..Len(FilterConditions) :
              (at < k /\ k <= ConditionsBefore(last.tableFilters, last.fields, i + 1))
                => FilterConditions[k].property = p
    /\ \A k \in 1..Len(FilterConditions) :
         \E i \in 1..Len(last.fields) : FilterConditions[k].property = last.fields[i]

\* Values for all three columns, fields naming updateTs and then status: the
\* 'in' condition comes third, and name contributes nothing.
C8_Witness ==
  /\ SetFiltersReturned
  /\ last.fields = <<"updateTs", "status">>
  /\ HasValues(last.tableFilters, "name")
  /\ HasValues(last.tableFilters, "updateTs")
  /\ Len(FilterConditions) = 3
  /\ FilterConditions[3] =
       [property |-> "status", operator |-> Str("in"),
        value |-> Arr(<<"RED", "GREEN">>)]

====
